---- MODULE Spec2Model ----
(***************************************************************************)
(* Model of zerver/lib/topic.py: the topic query layer, the topic-move     *)
(* transaction (update_messages_for_topic_edit and its propagate()         *)
(* closure), the single-message edit-history update, and the topic-history *)
(* aggregation generate_topic_history_from_db_rows.                        *)
(*                                                                         *)
(* The message table is the sequence msgs; a row's id is its index, so ids *)
(* are handed out monotonically.  Every modelled row is a channel message  *)
(* of one realm, so realm_id and is_channel_message hold for every row.    *)
(***************************************************************************)
EXTENDS Integers, Sequences, FiniteSets, TLC

VARIABLES
    msgs,            \* zerver_message rows, indexed by id
    clock,           \* number of edit events issued so far (event = timestamp)
    pc,              \* position of the topic-move request: idle / built / done
    req,             \* the StreamMessageEditRequest (plus edited id, event) in flight
    message_ids,     \* the ids captured at line 232
    before,          \* the table as the UPDATE of line 235 found it
    updated,         \* ids of the rows the UPDATE of line 235 modified
    fetched,         \* rows returned by the re-fetch of lines 236-238
    rows,            \* input of generate_topic_history_from_db_rows
    allow_empty_topic_name,
    history,         \* its output
    hpc              \* position of the aggregation: input / done

vars == <<msgs, clock, pc, req, message_ids, before, updated, fetched,
          rows, allow_empty_topic_name, history, hpc>>

dbvars == <<msgs, clock, pc, req, message_ids, before, updated, fetched>>
histvars == <<rows, allow_empty_topic_name, history, hpc>>

\* ---------------------------------------------------------------- bounds
\* Committed operations of one run: rows sent plus edit events issued.
MaxOps == 3
MaxRows == 3
MaxRowId == 4

\* ---------------------------------------------------------------- domains
StoredTopics == {"bug", "Bug", "ci"}
RowTopics == {"Bug", "BUG", "bug", "ci", "", "general chat"}
Recipients == {1, 2}
PropagateModes == {"change_one", "change_later", "change_all"}

EMPTY_TOPIC_FALLBACK_NAME == "general chat"

\* Python None / SQL NULL for the text column edit_history.
None == <<"None">>

\* str.lower() on the topic names of the model (line 255).
lower(s) ==
    CASE s \in {"bug", "Bug", "BUG"} -> "bug"
      [] s = "general chat" -> "general chat"
      [] OTHER -> s

\* SQL UPPER(), which the ORM's __iexact lookup applies to both sides.
upper(s) ==
    CASE s \in {"bug", "Bug", "BUG"} -> "BUG"
      [] s = "ci" -> "CI"
      [] s = "general chat" -> "GENERAL CHAT"
      [] OTHER -> s

iexact(a, b) == upper(a) = upper(b)

RECURSIVE SetMax(_)
SetMax(S) ==
    LET x == CHOOSE y \in S : TRUE
    IN IF S = {x} THEN x
       ELSE LET m == SetMax(S \ {x}) IN IF x > m THEN x ELSE m

Range(s) == {s[i] : i \in DOMAIN s}

\* ------------------------------------------------- JSON text of edit_history
\* A JSON text is a sequence of tokens; an event is the token ToString(n).
Punctuation == {"[", "]", ",", " "}

RECURSIVE Join(_, _)
Join(list, sep) ==
    IF Len(list) = 0 THEN <<>>
    ELSE IF Len(list) = 1 THEN <<list[1]>>
    ELSE <<list[1]>> \o sep \o Join(Tail(list), sep)

\* orjson.dumps(list).decode(): compact separators.
orjson_dumps(list) == <<"[">> \o Join(list, <<",">>) \o <<"]">>

\* orjson.loads(text): the elements of the array, whitespace ignored.
orjson_loads(text) == SelectSeq(text, LAMBDA t : t \notin Punctuation)

\* (text)::jsonb reads the array; (jsonb)::text writes it with ", " separators.
jsonb_of_text(text) == SelectSeq(text, LAMBDA t : t \notin Punctuation)
text_of_jsonb(list) == <<"[">> \o Join(list, <<",", " ">>) \o <<"]">>

COALESCE(a, b) == IF a = None THEN b ELSE a

\* The events of a stored edit_history, newest first (NULL counts as empty).
Events(text) == IF text = None THEN <<>> ELSE orjson_loads(text)

\* ------------------------------------------------------------ message rows
\* A freshly sent message: no edit history, never edited.  um is TRUE when
\* the user has a UserMessage row (a personal delivery record) for it.
NewMessage(r, t, u) ==
    [recipient |-> r, subject |-> t, edit_history |-> None,
     last_edit_time |-> 0, um |-> u]

NoReq ==
    [edited |-> 0, propagate_mode |-> "change_one",
     orig_recipient |-> 0, orig_topic_name |-> "",
     is_stream_edited |-> FALSE, is_topic_edited |-> FALSE,
     target_recipient |-> 0, target_topic_name |-> "",
     event |-> "", last_edit_time |-> 0]

\* ------------------------------------------------------- topic query layer
\* messages_for_topic: recipient_id and subject__iexact filter.
messages_for_topic(recipient_id, topic_name) ==
    {i \in DOMAIN msgs :
        /\ msgs[i].recipient = recipient_id
        /\ iexact(msgs[i].subject, topic_name)}

\* Mutant of last: first() instead of last().
first(ids) ==
    IF ids = {} THEN <<>>
    ELSE <<CHOOSE i \in ids : \A j \in ids : i <= j>>

\* QuerySet.last() on an unordered queryset: order by primary key, take the
\* last row; None (here the empty sequence) when there is no row.
last(ids) == IF ids = {} THEN <<>> ELSE <<SetMax(ids)>>

\* UserMessage.objects.filter(user_profile=..., message__recipient_id=...,
\* message__subject__iexact=...) as the message ids of the matching rows.
user_messages_for_topic(recipient_id, topic_name) ==
    {i \in DOMAIN msgs :
        /\ msgs[i].um
        /\ msgs[i].recipient = recipient_id
        /\ iexact(msgs[i].subject, topic_name)}

\* Called with acting_user_has_channel_content_access true, as the assert
\* of line 92 demands; user_given is `user_profile is not None`.
get_latest_message_for_user_in_topic(user_given, recipient_id, topic_name, history_public_to_subscribers) ==
    IF history_public_to_subscribers
    THEN last(messages_for_topic(recipient_id, topic_name))
    ELSE IF user_given
    THEN last(user_messages_for_topic(recipient_id, topic_name))
    ELSE <<>>

user_message_exists_for_topic(recipient_id, topic_name) ==
    user_messages_for_topic(recipient_id, topic_name) # {}

\* ------------------------------------------------------ single-message edit
\* update_edit_history on an in-memory Message object.
update_edit_history(message, last_edit_time, edit_history_event) ==
    LET edit_history ==
            IF message.edit_history # None
            THEN <<edit_history_event>> \o orjson_loads(message.edit_history)
            ELSE <<edit_history_event>>
    IN [message EXCEPT !.last_edit_time = last_edit_time,
                       !.edit_history = orjson_dumps(edit_history)]

\* message.save(update_fields=[...]): the listed columns of row id are
\* overwritten by the object's values.
save_message_for_edit_use_case(id, message) ==
    [msgs EXCEPT ![id] = [@ EXCEPT !.subject = message.subject,
                                   !.last_edit_time = message.last_edit_time,
                                   !.edit_history = message.edit_history,
                                   !.recipient = message.recipient]]

\* -------------------------------------------------- topic-move transaction
\* bulk_access_stream_messages_query: the ids of the given set the acting
\* user may access in the original conversation (by delivery record).
bulk_access_stream_messages_query(ids) == {i \in ids : msgs[i].um}

\* Mutant of messages: change_later keeps the edited message (id >= M).
messages_later_inclusive(q) ==
    LET base == {i \in DOMAIN msgs :
                    /\ msgs[i].recipient = q.orig_recipient
                    /\ iexact(msgs[i].subject, q.orig_topic_name)}
        all == IF q.propagate_mode = "change_all"
               THEN base \ {q.edited} ELSE base
        later == IF q.propagate_mode = "change_later"
                 THEN {i \in all : i >= q.edited} ELSE all
    IN IF q.is_stream_edited
       THEN bulk_access_stream_messages_query(later)
       ELSE later

\* Mutant of messages: the access restriction of a conversation move is lost.
messages_no_access_check(q) ==
    LET base == {i \in DOMAIN msgs :
                    /\ msgs[i].recipient = q.orig_recipient
                    /\ iexact(msgs[i].subject, q.orig_topic_name)}
        all == IF q.propagate_mode = "change_all"
               THEN base \ {q.edited} ELSE base
    IN IF q.propagate_mode = "change_later"
       THEN {i \in all : i > q.edited} ELSE all

\* Mutant of messages: change_one is scoped to the edited message alone.
messages_change_one_single(q) ==
    LET base == {i \in DOMAIN msgs :
                    /\ msgs[i].recipient = q.orig_recipient
                    /\ iexact(msgs[i].subject, q.orig_topic_name)}
        all == IF q.propagate_mode = "change_all"
               THEN base \ {q.edited} ELSE base
        later == IF q.propagate_mode = "change_later"
                 THEN {i \in all : i > q.edited} ELSE all
        one == IF q.propagate_mode = "change_one"
               THEN later \cap {q.edited} ELSE later
    IN IF q.is_stream_edited
       THEN bulk_access_stream_messages_query(one)
       ELSE one

\* The lazy queryset `messages` of lines 165-187, evaluated on the current
\* table contents.
messages(q) ==
    LET base == {i \in DOMAIN msgs :
                    /\ msgs[i].recipient = q.orig_recipient
                    /\ iexact(msgs[i].subject, q.orig_topic_name)}
        all == IF q.propagate_mode = "change_all"
               THEN base \ {q.edited} ELSE base
        later == IF q.propagate_mode = "change_later"
                 THEN {i \in all : i > q.edited} ELSE all
    IN IF q.is_stream_edited
       THEN bulk_access_stream_messages_query(later)
       ELSE later

\* Mutant of update_fields: the operands of || are swapped, so the new
\* event lands at the end of the array.
update_fields_append(row, q) ==
    LET h == text_of_jsonb(
                 jsonb_of_text(COALESCE(row.edit_history, <<"[", "]">>))
                 \o jsonb_of_text(orjson_dumps(<<q.event>>)))
        r1 == [row EXCEPT !.last_edit_time = q.last_edit_time,
                          !.edit_history = h]
        r2 == IF q.is_stream_edited
              THEN [r1 EXCEPT !.recipient = q.target_recipient] ELSE r1
    IN IF q.is_topic_edited
       THEN [r2 EXCEPT !.subject = q.target_topic_name] ELSE r2

\* Mutant of update_fields: subject is written whether or not the topic
\* was edited.
update_fields_always_subject(row, q) ==
    LET h == text_of_jsonb(
                 jsonb_of_text(orjson_dumps(<<q.event>>))
                 \o jsonb_of_text(COALESCE(row.edit_history, <<"[", "]">>)))
        r1 == [row EXCEPT !.last_edit_time = q.last_edit_time,
                          !.edit_history = h]
        r2 == IF q.is_stream_edited
              THEN [r1 EXCEPT !.recipient = q.target_recipient] ELSE r1
    IN [r2 EXCEPT !.subject = q.target_topic_name]

\* update_fields of lines 189-225 applied to one row by the UPDATE.
update_fields(row, q) ==
    LET h == text_of_jsonb(
                 jsonb_of_text(orjson_dumps(<<q.event>>))
                 \o jsonb_of_text(COALESCE(row.edit_history, <<"[", "]">>)))
        r1 == [row EXCEPT !.last_edit_time = q.last_edit_time,
                          !.edit_history = h]
        r2 == IF q.is_stream_edited
              THEN [r1 EXCEPT !.recipient = q.target_recipient] ELSE r1
    IN IF q.is_topic_edited
       THEN [r2 EXCEPT !.subject = q.target_topic_name] ELSE r2

RECURSIVE values_list(_)
\* messages.values_list("id", flat=True): the ids as a list (ascending).
values_list(ids) ==
    IF ids = {} THEN <<>>
    ELSE LET m == SetMax(ids) IN Append(values_list(ids \ {m}), m)

\* Message.objects.filter(id__in=message_ids): one row per matching id.
filter_id_in(table, ids) ==
    {[id |-> i, row |-> table[i]] : i \in Range(ids) \cap DOMAIN table}

\* ------------------------------------------------------------------ actions
Init ==
    /\ msgs = <<>>
    /\ clock = 0
    /\ pc = "idle"
    /\ req = NoReq
    /\ message_ids = <<>>
    /\ before = <<>>
    /\ updated = {}
    /\ fetched = {}
    /\ rows = <<>>
    /\ allow_empty_topic_name = FALSE
    /\ history = <<>>
    /\ hpc = "idle"

\* The message-send subsystem inserts a row; it runs in its own transaction
\* and so may commit at any point of a topic move.
Send(r, t, u) ==
    /\ pc # "done"
    /\ Len(msgs) + clock < MaxOps
    /\ msgs' = Append(msgs, NewMessage(r, t, u))
    /\ UNCHANGED <<clock, pc, req, message_ids, before, updated, fetched>>
    /\ UNCHANGED histvars

\* A single-message edit: the caller assigns the new topic and conversation
\* to the Message object, then update_edit_history and
\* save_message_for_edit_use_case.
EditMessage(id, r, t) ==
    /\ pc # "done"
    /\ id \in DOMAIN msgs
    /\ Len(msgs) + clock < MaxOps
    /\ clock' = clock + 1
    /\ LET message == [msgs[id] EXCEPT !.recipient = r, !.subject = t]
           edited == update_edit_history(message, clock', ToString(clock'))
       IN msgs' = save_message_for_edit_use_case(id, edited)
    /\ UNCHANGED <<pc, req, message_ids, before, updated, fetched>>
    /\ UNCHANGED histvars

\* update_messages_for_topic_edit up to its return: the request is bound,
\* the ids are captured (line 232), nothing is written yet.  The acting user
\* edits a message they can access; the request changes the conversation,
\* the topic name or both, and its orig_* fields are the edited row's.
update_messages_for_topic_edit(id, mode, se, te, r, t) ==
    /\ pc = "idle"
    /\ id \in DOMAIN msgs
    /\ Len(msgs) + clock < MaxOps
    /\ msgs[id].um
    /\ se \/ te
    /\ se => r # msgs[id].recipient
    /\ te => t # msgs[id].subject
    /\ clock' = clock + 1
    /\ req' = [edited |-> id, propagate_mode |-> mode,
               orig_recipient |-> msgs[id].recipient,
               orig_topic_name |-> msgs[id].subject,
               is_stream_edited |-> se, is_topic_edited |-> te,
               target_recipient |-> IF se THEN r ELSE msgs[id].recipient,
               target_topic_name |-> IF te THEN t ELSE msgs[id].subject,
               event |-> ToString(clock'), last_edit_time |-> clock']
    /\ message_ids' = <<id>> \o values_list(messages(req'))
    /\ pc' = "built"
    /\ before' = <<>>
    /\ updated' = {}
    /\ fetched' = {}
    /\ UNCHANGED msgs
    /\ UNCHANGED histvars

\* Mutant of propagate: the rows are fetched before the UPDATE is issued.
propagate_fetch_before_update ==
    /\ pc = "built"
    /\ before' = msgs
    /\ updated' = messages(req)
    /\ msgs' = [i \in DOMAIN msgs |->
                   IF i \in updated' THEN update_fields(msgs[i], req)
                   ELSE msgs[i]]
    /\ fetched' = filter_id_in(msgs, message_ids)
    /\ pc' = "done"
    /\ UNCHANGED <<clock, req, message_ids>>
    /\ UNCHANGED histvars

\* The closure propagate(): the UPDATE over the queryset as it matches now,
\* then the re-fetch by the captured ids.
propagate ==
    /\ pc = "built"
    /\ before' = msgs
    /\ updated' = messages(req)
    /\ msgs' = [i \in DOMAIN msgs |->
                   IF i \in updated' THEN update_fields(msgs[i], req)
                   ELSE msgs[i]]
    /\ fetched' = filter_id_in(msgs', message_ids)
    /\ pc' = "done"
    /\ UNCHANGED <<clock, req, message_ids>>
    /\ UNCHANGED histvars

\* The request ends: the caller has consumed the re-fetched rows.
Return ==
    /\ pc = "done"
    /\ pc' = "idle"
    /\ req' = NoReq
    /\ message_ids' = <<>>
    /\ before' = <<>>
    /\ updated' = {}
    /\ fetched' = {}
    /\ UNCHANGED <<msgs, clock>>
    /\ UNCHANGED histvars

Next ==
    \/ \E r \in Recipients, t \in StoredTopics, u \in BOOLEAN : Send(r, t, u)
    \/ \E id \in 1..MaxOps, r \in Recipients, t \in StoredTopics :
          EditMessage(id, r, t)
    \/ \E id \in 1..MaxOps, mode \in PropagateModes, se \in BOOLEAN,
          te \in BOOLEAN, r \in Recipients, t \in StoredTopics :
          update_messages_for_topic_edit(id, mode, se, te, r, t)
    \/ propagate
    \/ Return

Spec == Init /\ [][Next]_vars

\* ------------------------------------------------------ history aggregation
\* sorted(seq, key=...): Python's stable sort, as an insertion sort over a
\* sequence of <<key, element>> pairs.
RECURSIVE InsertByKey(_, _)
InsertByKey(sortedPairs, p) ==
    IF sortedPairs = <<>> THEN <<p>>
    ELSE LET n == Len(sortedPairs)
         IN IF sortedPairs[n][1] <= p[1]
            THEN Append(sortedPairs, p)
            ELSE Append(InsertByKey(SubSeq(sortedPairs, 1, n - 1), p),
                        sortedPairs[n])

RECURSIVE SortPairs(_)
SortPairs(pairs) ==
    IF pairs = <<>> THEN <<>>
    ELSE LET n == Len(pairs)
         IN InsertByKey(SortPairs(SubSeq(pairs, 1, n - 1)), pairs[n])

sorted(seq, keys) ==
    LET s == SortPairs([i \in DOMAIN seq |-> <<keys[i], seq[i]>>])
    IN [i \in DOMAIN s |-> s[i][2]]

\* canonical_topic_names[canonical_name] = value on an insertion-ordered
\* dict, kept as a sequence of <<key, value>> items.
dict_set(d, k, v) ==
    IF \E i \in DOMAIN d : d[i][1] = k
    THEN [i \in DOMAIN d |-> IF d[i][1] = k THEN <<k, v>> ELSE d[i]]
    ELSE Append(d, <<k, v>>)

RECURSIVE canonical_topic_names(_)
\* The loop of lines 254-256 over the sorted rows.
canonical_topic_names(rs) ==
    IF rs = <<>> THEN <<>>
    ELSE LET n == Len(rs)
             topic_name == rs[n][1]
             max_message_id == rs[n][2]
         IN dict_set(canonical_topic_names(SubSeq(rs, 1, n - 1)),
                     lower(topic_name), <<max_message_id, topic_name>>)

\* Mutant of generate_topic_history_from_db_rows: the rows are folded in
\* input order, without the sort of line 252.
generate_without_row_sort(rs, allow_empty) ==
    LET values == canonical_topic_names(rs)
        hist == [i \in DOMAIN values |->
                    LET max_message_id == values[i][2][1]
                        topic_name == values[i][2][2]
                    IN [name |-> IF topic_name = "" /\ ~allow_empty
                                 THEN EMPTY_TOPIC_FALLBACK_NAME
                                 ELSE topic_name,
                        max_id |-> max_message_id]]
    IN sorted(hist, [i \in DOMAIN hist |-> 0 - hist[i].max_id])

\* Mutant of generate_topic_history_from_db_rows: the history is returned
\* in dict order, without the sort of line 265.
generate_without_final_sort(rs, allow_empty) ==
    LET sorted_rows == sorted(rs, [i \in DOMAIN rs |-> rs[i][2]])
        values == canonical_topic_names(sorted_rows)
    IN [i \in DOMAIN values |->
           LET max_message_id == values[i][2][1]
               topic_name == values[i][2][2]
           IN [name |-> IF topic_name = "" /\ ~allow_empty
                        THEN EMPTY_TOPIC_FALLBACK_NAME
                        ELSE topic_name,
               max_id |-> max_message_id]]

generate_topic_history_from_db_rows(rs, allow_empty) ==
    LET sorted_rows == sorted(rs, [i \in DOMAIN rs |-> rs[i][2]])
        values == canonical_topic_names(sorted_rows)
        hist == [i \in DOMAIN values |->
                    LET max_message_id == values[i][2][1]
                        topic_name == values[i][2][2]
                    IN [name |-> IF topic_name = "" /\ ~allow_empty
                                 THEN EMPTY_TOPIC_FALLBACK_NAME
                                 ELSE topic_name,
                        max_id |-> max_message_id]]
    IN sorted(hist, [i \in DOMAIN hist |-> 0 - hist[i].max_id])

\* The rows a GROUP BY subject / max(id) query can return: one row per
\* literal topic string, each with the id of a different message.
GroupByRows(names, ids) ==
    /\ \A i, j \in DOMAIN names : i # j => names[i] # names[j] /\ ids[i] # ids[j]
    /\ rows = [i \in DOMAIN names |-> <<names[i], ids[i]>>]

InitHistory ==
    /\ msgs = <<>>
    /\ clock = 0
    /\ pc = "idle"
    /\ req = NoReq
    /\ message_ids = <<>>
    /\ before = <<>>
    /\ updated = {}
    /\ fetched = {}
    /\ \E n \in 0..MaxRows :
          \E names \in [1..n -> RowTopics], ids \in [1..n -> 1..MaxRowId] :
              GroupByRows(names, ids)
    /\ allow_empty_topic_name \in BOOLEAN
    /\ history = <<>>
    /\ hpc = "input"

GenerateTopicHistory ==
    /\ hpc = "input"
    /\ history' = generate_topic_history_from_db_rows(rows, allow_empty_topic_name)
    /\ hpc' = "done"
    /\ UNCHANGED <<rows, allow_empty_topic_name>>
    /\ UNCHANGED dbvars

NextHistory == GenerateTopicHistory

SpecHistory == InitHistory /\ [][NextHistory]_vars

\* =================================================================== claims
\* Row `row` lies in the original conversation and topic of request q.
InTopic(row, q) ==
    /\ row.recipient = q.orig_recipient
    /\ upper(row.subject) = upper(q.orig_topic_name)

FetchedIds == {f.id : f \in fetched}
Candidates == Range(Tail(message_ids))

\* A change_all topic rename has run to the end of propagate().
RenamedAll ==
    /\ pc = "done"
    /\ req.propagate_mode = "change_all"
    /\ req.is_topic_edited

C2_Original ==
    pc = "done" =>
        /\ req.propagate_mode = "change_later" =>
              /\ \A i \in updated : i > req.edited
              /\ \A f \in fetched : f.id > req.edited
        /\ req.propagate_mode = "change_all" => req.edited \notin updated

\* C2 amended: with change_later and edited id M no row updated by
\* propagate() has id <= M (rows up to M are left as they were), and the
\* only returned row with id <= M is the edited message itself, whose id is
\* captured first in message_ids; with change_all the edited message is not
\* in the bulk-update set and its row is not modified.
C2_PropagationBoundary ==
    pc = "done" =>
        /\ req.propagate_mode = "change_later" =>
              /\ \A i \in updated : i > req.edited
              /\ \A i \in DOMAIN before : i <= req.edited => msgs[i] = before[i]
              /\ \A f \in fetched : f.id >= req.edited
              /\ req.edited \in FetchedIds
        /\ req.propagate_mode = "change_all" =>
              /\ req.edited \notin updated
              /\ msgs[req.edited] = before[req.edited]

C2_Witness ==
    /\ pc = "done"
    /\ req.propagate_mode = "change_later"
    /\ updated # {}
    /\ InTopic(before[req.edited], req)
    /\ req.edited \in FetchedIds

\* The step is the UPDATE of propagate().
IsPropagate == pc = "built" /\ pc' = "done"

ModeCovers(i, q) ==
    CASE q.propagate_mode = "change_all" -> i # q.edited
      [] q.propagate_mode = "change_later" -> i > q.edited
      [] OTHER -> TRUE

\* C4: when the request changes the conversation, every candidate is a
\* message the acting user can access, and propagate() leaves every message
\* the acting user cannot access exactly as it was; when only the topic name
\* changes, every message of the topic the mode covers is updated, accessible
\* or not.
C4_AccessRestriction ==
    pc = "done" =>
        IF req.is_stream_edited
        THEN /\ \A i \in Candidates \cup updated : before[i].um
             /\ \A i \in DOMAIN before : ~before[i].um => msgs[i] = before[i]
        ELSE \A i \in DOMAIN before :
                (InTopic(before[i], req) /\ ModeCovers(i, req))
                    => /\ i \in updated
                       /\ msgs[i].subject = req.target_topic_name

C4_Witness ==
    /\ pc = "done"
    /\ req.is_stream_edited
    /\ updated # {}
    /\ \E i \in DOMAIN before :
          /\ i # req.edited
          /\ ~before[i].um
          /\ InTopic(before[i], req)
          /\ msgs[i] = before[i]

\* C5 as stated: under interleavings with concurrent sends and edits, every
\* row the UPDATE of propagate() modifies has its id in the id set captured
\* when update_messages_for_topic_edit was called.
C5_CapturedIdsSuperset ==
    pc = "done" => updated \subseteq Range(message_ids)

C8_UpdateFrame ==
    pc = "done" =>
        \A i \in DOMAIN before :
            /\ msgs[i].recipient # before[i].recipient =>
                  /\ req.is_stream_edited
                  /\ i \in updated
                  /\ msgs[i].recipient = req.target_recipient
            /\ msgs[i].subject # before[i].subject =>
                  /\ req.is_topic_edited
                  /\ i \in updated
                  /\ msgs[i].subject = req.target_topic_name

C8_Witness ==
    /\ pc = "done"
    /\ req.is_stream_edited
    /\ ~req.is_topic_edited
    /\ \E i \in updated :
          /\ before[i].subject # req.orig_topic_name
          /\ msgs[i].subject = before[i].subject
          /\ msgs[i].recipient = req.target_recipient
          /\ before[i].recipient # req.target_recipient

\* The UPDATE was applied to row i as request q asks.
Applied(i, q) ==
    /\ i \in updated
    /\ Len(Events(msgs[i].edit_history)) > 0
    /\ Events(msgs[i].edit_history)[1] = q.event
    /\ q.is_topic_edited => msgs[i].subject = q.target_topic_name
    /\ q.is_stream_edited => msgs[i].recipient = q.target_recipient

CanonicalNames == {lower(rows[i][1]) : i \in DOMAIN rows}

\* The row with the highest max_message_id among the case variants of k.
TopRow(k) ==
    rows[CHOOSE i \in DOMAIN rows :
            /\ lower(rows[i][1]) = k
            /\ \A j \in DOMAIN rows :
                  lower(rows[j][1]) = k => rows[j][2] <= rows[i][2]]

\* C6 as stated: one entry per distinct case-folded topic name, carrying the
\* literal casing and the max_id of the row with the highest max_message_id
\* among the case variants of that name.
C6_Original ==
    hpc = "done" =>
        /\ Len(history) = Cardinality(CanonicalNames)
        /\ \A k \in CanonicalNames :
              \E n \in DOMAIN history :
                  history[n] = [name |-> TopRow(k)[1], max_id |-> TopRow(k)[2]]

\* C6 amended: one entry per distinct case-folded topic name, carrying the
\* max_id of the row with the highest max_message_id among the case variants
\* of that name and that row's literal casing, except that an empty name is
\* replaced by the fallback label when allow_empty_topic_name is false.
C6_CaseCanonicalization ==
    hpc = "done" =>
        /\ Len(history) = Cardinality(CanonicalNames)
        /\ \A k \in CanonicalNames :
              \E n \in DOMAIN history :
                  /\ history[n].max_id = TopRow(k)[2]
                  /\ history[n].name =
                        IF TopRow(k)[1] = "" /\ ~allow_empty_topic_name
                        THEN EMPTY_TOPIC_FALLBACK_NAME
                        ELSE TopRow(k)[1]
                  /\ \A m \in DOMAIN history :
                        history[m].max_id = TopRow(k)[2] => m = n

C6_Witness ==
    /\ hpc = "done"
    /\ rows = <<<<"Bug", 3>>, <<"BUG", 4>>, <<"bug", 1>>>>
    /\ history = <<[name |-> "BUG", max_id |-> 4]>>

\* C9: the returned list is strictly descending by max_id.
C9_SortedDescending ==
    hpc = "done" =>
        \A a, b \in DOMAIN history :
            a < b => history[a].max_id > history[b].max_id

C9_Witness ==
    /\ hpc = "done"
    /\ Len(history) = 3
    /\ rows[1][2] < rows[3][2]
    /\ rows[3][2] < rows[2][2]

====
